---------------------------- MODULE Spec2Model ----------------------------
(***************************************************************************)
(* otgorm: OpenTelemetry spans around the ORM's create / query / update /  *)
(* delete / row_query callbacks (callbacks.go), and LogFormatter, which    *)
(* renders a parameterised SQL statement and its bound values as one text. *)
(*                                                                         *)
(* Texts are sequences of one-character strings, so that splitting,        *)
(* matching and substituting are computed character by character as the    *)
(* regular expressions of the source do.                                   *)
(***************************************************************************)
EXTENDS Integers, Sequences, FiniteSets, TLC

(***************************************************************************)
(* Bounds of the model.                                                    *)
(***************************************************************************)
MaxQueryLen == 4      \* longest query text given to LogFormatter
MaxVars == 2          \* most bound values given to LogFormatter
MaxOps == 2           \* database operations (scopes) of one run
MaxSpare == 1         \* most spare capacity of the DefaultAttributes slice

(***************************************************************************)
(* Characters.                                                             *)
(***************************************************************************)
DigitSeq == <<"0", "1", "2", "3", "4", "5", "6", "7", "8", "9">>

Digits == {DigitSeq[i] : i \in 1..10}

Letters ==
    {"a", "b", "c", "d", "e", "f", "g", "h", "i", "j", "k", "l", "m",
     "n", "o", "p", "q", "r", "s", "t", "u", "v", "w", "x", "y", "z",
     "A", "B", "C", "D", "E", "F", "G", "H", "I", "J", "K", "L", "M",
     "N", "O", "P", "Q", "R", "S", "T", "U", "V", "W", "X", "Y", "Z"}

IsDigit(c) == c \in Digits

DigitVal(c) == CHOOSE d \in 0..9 : DigitSeq[d + 1] = c

\* regexp.Expand's name characters: letters, digits and underscore.
IsWordChar(c) == c \in Letters \/ c \in Digits \/ c = "_"

\* unicode.IsPrint over the characters of the model: the tab and the line
\* feed are the characters that are not printable (the space is).
IsPrint(c) == c \notin {"\t", "\n"}

\* isPrintable: every character of s is printable.
isPrintable(s) == \A i \in 1..Len(s) : IsPrint(s[i])

RECURSIVE NatText(_)
NatText(n) ==
    IF n < 10 THEN <<DigitSeq[n + 1]>>
    ELSE NatText(n \div 10) \o <<DigitSeq[(n % 10) + 1]>>

\* fmt's %d / %v of an integer.
Itoa(n) == IF n < 0 THEN <<"-">> \o NatText(0 - n) ELSE NatText(n)

RECURSIVE Pad(_, _)
Pad(s, w) == IF Len(s) >= w THEN s ELSE Pad(<<"0">> \o s, w)

Quote(s) == <<"'">> \o s \o <<"'">>

(***************************************************************************)
(* Go values bound to a statement.  A value is a record whose "type" is    *)
(* its dynamic type; a pointer holds its element or is nil.                *)
(***************************************************************************)
NilValue == [type |-> "nil"]

InvalidValue == [type |-> "invalid"]

NilPtr == [type |-> "ptr", isNil |-> TRUE]

PtrTo(v) == [type |-> "ptr", isNil |-> FALSE, elem |-> v]

TimeOf(y, mo, d, h, mi, s) ==
    [type |-> "time.Time", year |-> y, month |-> mo, day |-> d,
     hour |-> h, min |-> mi, sec |-> s]

\* The zero time.Time: January 1, year 1, 00:00:00 UTC.
ZeroTime == TimeOf(1, 1, 1, 0, 0, 0)

\* time.Time.IsZero
IsZero(t) == t = ZeroTime

\* time.Time.Format("2006-01-02 15:04:05")
FormatTime(t) ==
    Pad(Itoa(t.year), 4) \o <<"-">> \o Pad(Itoa(t.month), 2) \o <<"-">>
        \o Pad(Itoa(t.day), 2) \o <<" ">> \o Pad(Itoa(t.hour), 2) \o <<":">>
        \o Pad(Itoa(t.min), 2) \o <<":">> \o Pad(Itoa(t.sec), 2)

ZeroTimeText ==
    <<"0", "0", "0", "0", "-", "0", "0", "-", "0", "0", " ",
      "0", "0", ":", "0", "0", ":", "0", "0">>

BinaryText == <<"'", "<", "b", "i", "n", "a", "r", "y", ">", "'">>

NullText == <<"N", "U", "L", "L">>

\* The types of the type switch of LogFormatter.
NumericTypes ==
    {"int", "int8", "int16", "int32", "int64", "uint", "uint8", "uint16",
     "uint32", "uint64", "float32", "float64", "bool"}

IntTypes ==
    {"int", "int8", "int16", "int32", "int64", "uint", "uint8", "uint16",
     "uint32", "uint64"}

\* fmt's %v of a value that is not a time, a byte slice or a valuer.
\* A float is held in tenths (15 is 1.5); a pointer prints as an address.
SprintV(v) ==
    CASE v.type \in IntTypes -> Itoa(v.n)
      [] v.type \in {"float32", "float64"} ->
            IF v.tenths % 10 = 0 THEN Itoa(v.tenths \div 10)
            ELSE Itoa(v.tenths \div 10) \o <<".">> \o Itoa(v.tenths % 10)
      [] v.type = "bool" ->
            IF v.b THEN <<"t", "r", "u", "e">> ELSE <<"f", "a", "l", "s", "e">>
      [] v.type = "string" -> v.s
      [] v.type = "ptr" ->
            IF v.isNil THEN <<"<", "n", "i", "l", ">">> ELSE <<"0", "x", "c", "0">>
      [] OTHER -> <<"<", "n", "i", "l", ">">>

\* reflect.Indirect(reflect.ValueOf(value)): one pointer level is removed;
\* nil and a nil pointer give the invalid Value.
Indirect(value) ==
    CASE value.type = "nil" -> InvalidValue
      [] value.type = "ptr" -> IF value.isNil THEN InvalidValue ELSE value.elem
      [] OTHER -> value

(***************************************************************************)
(* LogFormatter, first loop: one rendering per bound value.                *)
(***************************************************************************)
\* A mis-rendering: the driver.Valuer's error and nil result are not looked at.
RenderValueValuerUnchecked(value) ==
    LET iv == Indirect(value) IN
    IF iv.type # "invalid"
    THEN IF iv.type = "time.Time"
         THEN IF IsZero(iv) THEN Quote(ZeroTimeText) ELSE Quote(FormatTime(iv))
         ELSE IF iv.type = "[]byte"
         THEN IF isPrintable(iv.b) THEN Quote(iv.b) ELSE BinaryText
         ELSE IF iv.type = "valuer"
         THEN Quote(SprintV(iv.val))
         ELSE IF iv.type \in NumericTypes THEN SprintV(iv) ELSE Quote(SprintV(iv))
    ELSE NullText

\* The body of the loop over the bound values.
RenderValue(value) ==
    LET iv == Indirect(value) IN
    IF iv.type # "invalid"
    THEN IF iv.type = "time.Time"
         THEN IF IsZero(iv) THEN Quote(ZeroTimeText) ELSE Quote(FormatTime(iv))
         ELSE IF iv.type = "[]byte"
         THEN IF isPrintable(iv.b) THEN Quote(iv.b) ELSE BinaryText
         ELSE IF iv.type = "valuer"
         THEN IF ~iv.err /\ iv.val.type # "nil"
              THEN Quote(SprintV(iv.val)) ELSE NullText
         ELSE IF iv.type \in NumericTypes THEN SprintV(iv) ELSE Quote(SprintV(iv))
    ELSE NullText

\* formattedValues once the loop has run over all the bound values.
FormatValues(vars) == [i \in 1..Len(vars) |-> RenderValue(vars[i])]

(***************************************************************************)
(* The regular expressions.                                                *)
(***************************************************************************)
\* numericPlaceHolderRegexp.MatchString: `\$\d+` occurs in the query.
HasNumericPlaceHolder(query) ==
    \E i \in 1..(Len(query) - 1) : query[i] = "$" /\ IsDigit(query[i + 1])

\* A match of `\$<k>([^\d]|$)` that starts at position i of text: the
\* dollar sign and the digits of k, then one character that is no digit
\* (the group) or the end of the text (the group is empty).
PlaceholderAt(text, i, k) ==
    LET d == Itoa(k)
        e == i + Len(d)
    IN  IF e <= Len(text) /\ text[i] = "$" /\ SubSeq(text, i + 1, e) = d
        THEN IF e = Len(text)
             THEN [ok |-> TRUE, len |-> Len(d) + 1, group |-> <<>>]
             ELSE IF ~IsDigit(text[e + 1])
                  THEN [ok |-> TRUE, len |-> Len(d) + 2, group |-> <<text[e + 1]>>]
                  ELSE [ok |-> FALSE, len |-> 0, group |-> <<>>]
        ELSE [ok |-> FALSE, len |-> 0, group |-> <<>>]

\* The longest prefix of t made of name characters.
RECURSIVE NameLen(_)
NameLen(t) ==
    IF t # <<>> /\ IsWordChar(Head(t)) THEN 1 + NameLen(Tail(t)) ELSE 0

RECURSIVE DecimalOf(_)
DecimalOf(name) ==
    IF name = <<>> THEN 0
    ELSE 10 * DecimalOf(SubSeq(name, 1, Len(name) - 1)) + DigitVal(name[Len(name)])

\* What $name stands for in a replacement template: a number is a group of
\* the match (0 the whole match, 1 the only group of the placeholder
\* expression); a leading zero, a group that does not exist and every other
\* name give the empty text.
GroupText(name, whole, group) ==
    IF (\A j \in 1..Len(name) : IsDigit(name[j])) /\ ~(name[1] = "0" /\ Len(name) > 1)
    THEN CASE DecimalOf(name) = 0 -> whole
           [] DecimalOf(name) = 1 -> group
           [] OTHER -> <<>>
    ELSE <<>>

\* regexp's expansion of a replacement template (ReplaceAllString): "$$" is
\* a dollar sign, $name is a group, and a dollar sign followed by no name is
\* kept.  (The ${name} form needs a brace, which no text of the model holds.)
RECURSIVE Expand(_, _, _)
Expand(template, whole, group) ==
    IF template = <<>> THEN <<>>
    ELSE IF Head(template) # "$"
    THEN <<Head(template)>> \o Expand(Tail(template), whole, group)
    ELSE LET r == Tail(template)
             n == NameLen(r)
         IN  IF r # <<>> /\ Head(r) = "$"
             THEN <<"$">> \o Expand(Tail(r), whole, group)
             ELSE IF n = 0
             THEN <<"$">> \o Expand(r, whole, group)
             ELSE GroupText(SubSeq(r, 1, n), whole, group)
                      \o Expand(SubSeq(r, n + 1, Len(r)), whole, group)

\* regexp.MustCompile(`\$<k>([^\d]|$)`).ReplaceAllString(text, template):
\* the matches are found from left to right and do not overlap.
RECURSIVE ReplaceFrom(_, _, _, _)
ReplaceFrom(text, i, k, template) ==
    IF i > Len(text) THEN <<>>
    ELSE LET m == PlaceholderAt(text, i, k) IN
         IF m.ok
         THEN Expand(template, SubSeq(text, i, i + m.len - 1), m.group)
                  \o ReplaceFrom(text, i + m.len, k, template)
         ELSE <<text[i]>> \o ReplaceFrom(text, i + 1, k, template)

ReplaceAllString(text, k, template) == ReplaceFrom(text, 1, k, template)

\* sqlRegexp.Split(query, -1): the texts between the question marks, one
\* more than there are question marks.
RECURSIVE Split(_)
Split(query) ==
    IF \A i \in 1..Len(query) : query[i] # "?" THEN <<query>>
    ELSE LET p == CHOOSE i \in 1..Len(query) :
                      query[i] = "?" /\ \A j \in 1..(i - 1) : query[j] # "?"
         IN  <<SubSeq(query, 1, p - 1)>> \o Split(SubSeq(query, p + 1, Len(query)))

(***************************************************************************)
(* LogFormatter, second part: the substitution.                            *)
(***************************************************************************)
\* The loop over formattedValues for a query with $n placeholders, after
\* the values 1..n have been substituted.
RECURSIVE SubstituteNumbered(_, _, _)
SubstituteNumbered(query, formatted, n) ==
    IF n = 0 THEN query
    ELSE ReplaceAllString(SubstituteNumbered(query, formatted, n - 1), n,
                          formatted[n] \o <<"$", "1">>)

\* The loop over the pieces of the split query, after the pieces 1..n.
RECURSIVE JoinPieces(_, _, _)
JoinPieces(pieces, formatted, n) ==
    IF n = 0 THEN <<>>
    ELSE JoinPieces(pieces, formatted, n - 1) \o pieces[n]
             \o (IF n - 1 < Len(formatted) THEN formatted[n] ELSE <<>>)

SubstituteOrdinal(query, formatted) ==
    JoinPieces(Split(query), formatted, Len(Split(query)))

LogFormatter(query, vars) ==
    IF HasNumericPlaceHolder(query)
    THEN SubstituteNumbered(query, FormatValues(vars), Len(vars))
    ELSE SubstituteOrdinal(query, FormatValues(vars))

(***************************************************************************)
(* The tracing callbacks.                                                  *)
(***************************************************************************)
VARIABLES
    allowRoot,          \* callbacks.allowRoot
    query,              \* callbacks.query
    table,              \* callbacks.table
    defaultAttributes,  \* callbacks.defaultAttributes: the slice header
    backing,            \* the array behind callbacks.defaultAttributes
    handleCtx,          \* what the db handle holds under contextScopeKey
    scopes,             \* the ORM's scope of each operation
    spans,              \* every span the tracer has started
    completed,          \* the span recorder's completed spans, in End order
    executed,           \* the operations in the order the ORM ran them
    lfQuery,            \* LogFormatter: values[0]
    lfVars,             \* LogFormatter: values[1]
    formattedValues,    \* LogFormatter: formattedValues
    sql,                \* LogFormatter: sql
    lfpc                \* LogFormatter: where the call is

traceVars ==
    <<allowRoot, query, table, defaultAttributes, backing, handleCtx, scopes,
      spans, completed, executed>>

fmtVars == <<lfQuery, lfVars, formattedValues, sql, lfpc>>

vars ==
    <<allowRoot, query, table, defaultAttributes, backing, handleCtx, scopes,
      spans, completed, executed, lfQuery, lfVars, formattedValues, sql, lfpc>>

Scopes == 1..MaxOps

\* The operations RegisterCallbacks hooks.
Operations == {"create", "query", "update", "delete", "row_query"}

TableKey == "gorm.table"

QueryKey == "gorm.query"

\* A span that is no span: the nil interface value.
NilSpan == 0

\* The tracing API's span that does nothing, which trace.SpanFromContext
\* returns for a context that carries no span.  It is not nil.
NoopSpan == -1

\* Values under contextScopeKey: nothing, a nil context, or a context with
\* the span it carries (NilSpan: none, as in context.Background()).
Unset == [kind |-> "unset", span |-> NilSpan]

NilCtx == [kind |-> "nil", span |-> NilSpan]

Background == [kind |-> "ctx", span |-> NilSpan]

ContextWithSpan(id) == [kind |-> "ctx", span |-> id]

\* The span the caller started before WithContext (tp.Tracer("test").Start).
ParentSpan == 1

\* gorm's errors: nil, ErrRecordNotFound, any other error.
NoError == "nil"

ErrRecordNotFound == "record not found"

ErrOther == "invalid transaction"

IsRecordNotFoundError(err) == err = ErrRecordNotFound

\* The statement the ORM runs for each operation of the application: the
\* table of the model, the SQL text and the bound values.
Statement(operation) ==
    CASE operation = "create" ->
            [table |-> <<"u">>, SQL |-> <<"I", " ", "u">>, SQLVars |-> <<>>]
      [] operation = "query" ->
            [table |-> <<"u">>, SQL |-> <<"S", " ", "$", "1">>,
             SQLVars |-> <<[type |-> "int64", n |-> 7]>>]
      [] operation = "update" ->
            [table |-> <<"o">>, SQL |-> <<"U", " ", "?", "?">>,
             SQLVars |-> <<[type |-> "string", s |-> <<"a">>], [type |-> "bool", b |-> TRUE]>>]
      [] operation = "delete" ->
            [table |-> <<"o">>, SQL |-> <<"D", " ", "$", "1">>,
             SQLVars |-> <<[type |-> "int64", n |-> 7]>>]
      [] OTHER ->
            [table |-> <<"u">>, SQL |-> <<"S", " ", "'", "?", "'">>, SQLVars |-> <<>>]

NoStatement == [table |-> <<>>, SQL |-> <<>>, SQLVars |-> <<>>]

\* The zero label.KeyValue of an array cell that was never written.
ZeroKeyValue == [key |-> "", value |-> <<>>]

\* The DefaultAttributes option's list.
ConfiguredAttributes == <<[key |-> "service", value |-> <<"d", "b">>]>>

NoSlice == [shared |-> FALSE, len |-> 0, own |-> <<>>]

\* The elements of a slice: of the shared array while it still points into
\* it, of its own array once append has had to grow it.
Elements(slice, array) ==
    IF slice.shared THEN SubSeq(array, 1, slice.len) ELSE slice.own

\* append(slice, kv): the slice header returned.  With spare capacity the
\* element goes into the array the slice points to.
AppendSlice(slice, kv, array) ==
    IF slice.shared /\ slice.len < Len(array)
    THEN [shared |-> TRUE, len |-> slice.len + 1, own |-> <<>>]
    ELSE [shared |-> FALSE, len |-> slice.len + 1,
          own |-> Elements(slice, array) \o <<kv>>]

\* append(slice, kv): the array behind callbacks.defaultAttributes after it.
AppendArray(slice, kv, array) ==
    IF slice.shared /\ slice.len < Len(array)
    THEN [array EXCEPT ![slice.len + 1] = kv]
    ELSE array

\* fmt.Sprintf("gorm:%s", operation) with the prefix left out.
SpanNameBare(operation) == operation

\* fmt.Sprintf("gorm:%s", operation)
SpanName(operation) == "gorm:" \o operation

\* trace.SpanFromContext(ctx): the span ctx carries, or the span that does
\* nothing when it carries none; never the nil span.
SpanFromContext(ctx) == IF ctx.span # NilSpan THEN ctx.span ELSE NoopSpan

\* Every span is started from context.Background().
StartContextBackground(ctx, parentSpan) == Background

\* The context startTrace hands to tracer.Start.
StartContext(ctx, parentSpan) ==
    IF parentSpan = NilSpan THEN Background ELSE ctx

\* startTrace returns early, before it starts a span.
Suppressed(parentSpan) == parentSpan = NilSpan /\ ~allowRoot

\* tracer.Start(ctx, name): the span it creates, a child of ctx's span.
NewSpan(ctx, name, s) ==
    [name |-> name, parent |-> ctx.span, owner |-> s, attributes |-> <<>>,
     calls |-> <<>>, code |-> "Unset", msg |-> "", endedBy |-> <<>>]

\* The status of a span: the messages exchanged.
StatusSwapped(err) ==
    IF err # NoError
    THEN IF IsRecordNotFoundError(err)
         THEN [code |-> "Error", msg |-> "gorm:Unknown"]
         ELSE [code |-> "Error", msg |-> "gorm:NotFound"]
    ELSE [code |-> "Ok", msg |-> ""]

\* endTrace: the status set on the span.
Status(err) ==
    IF err # NoError
    THEN IF IsRecordNotFoundError(err)
         THEN [code |-> "Error", msg |-> "gorm:NotFound"]
         ELSE [code |-> "Error", msg |-> "gorm:Unknown"]
    ELSE [code |-> "Ok", msg |-> ""]

\* fileWithLineNum: the caller's file and line, or the empty text.
fileWithLineNum(site) ==
    IF site.ok THEN site.file \o <<":">> \o Itoa(site.line) ELSE <<>>

\* The place in the caller's code operation s was called from.
CallSite(s) == [ok |-> TRUE, file |-> <<"m">>, line |-> s]

InFlight(s) == scopes[s].pc \notin {"idle", "done"}

IdleScope ==
    [pc |-> "idle", operation |-> "", ctx |-> Unset, span |-> NilSpan,
     stmt |-> NoStatement, err |-> NoError, attributes |-> NoSlice]

FmtOff ==
    /\ lfQuery = <<>>
    /\ lfVars = <<>>
    /\ formattedValues = <<>>
    /\ sql = <<>>
    /\ lfpc = "off"

\* RegisterCallbacks with its options, and WithContext on the handle.
Init ==
    /\ allowRoot \in BOOLEAN
    /\ query \in BOOLEAN
    /\ table \in BOOLEAN
    /\ \E n \in 0..Len(ConfiguredAttributes), spare \in 0..MaxSpare :
          /\ defaultAttributes = [shared |-> TRUE, len |-> n, own |-> <<>>]
          /\ backing = [i \in 1..(n + spare) |->
                           IF i <= n THEN ConfiguredAttributes[i] ELSE ZeroKeyValue]
    /\ handleCtx \in {Unset, NilCtx, Background, ContextWithSpan(ParentSpan)}
    /\ spans = IF handleCtx.span = ParentSpan
               THEN <<NewSpan(Background, "myTrace", 0)>> ELSE <<>>
    /\ scopes = [s \in Scopes |-> IdleScope]
    /\ completed = <<>>
    /\ executed = <<>>
    /\ FmtOff

\* The ORM starts an operation on the handle, on a scope of its own that
\* holds a copy of the handle's values, and runs the before hook of the
\* operation: before and startTrace.
Before(s, operation) ==
    /\ scopes[s].pc = "idle"
    /\ \A r \in Scopes : r < s => scopes[r].pc # "idle"
    /\ handleCtx.span = ParentSpan => spans[ParentSpan].endedBy = <<>>
    /\ LET rctx == handleCtx
           ctx == IF rctx.kind = "ctx" THEN rctx ELSE Background
           parentSpan == SpanFromContext(ctx)
           id == Len(spans) + 1
       IN  IF Suppressed(parentSpan)
           THEN /\ scopes' = [scopes EXCEPT ![s].pc = "run", ![s].operation = operation,
                                            ![s].ctx = ctx]
                /\ spans' = spans
           ELSE /\ spans' = Append(spans,
                                   NewSpan(StartContext(ctx, parentSpan),
                                           SpanName(operation), s))
                /\ scopes' = [scopes EXCEPT ![s].pc = "run", ![s].operation = operation,
                                            ![s].span = id,
                                            ![s].ctx = ContextWithSpan(id)]
    /\ UNCHANGED <<allowRoot, query, table, defaultAttributes, backing, handleCtx,
                   completed, executed>>
    /\ UNCHANGED fmtVars

\* scope.Get(spanScopeKey) answered with the span started last, whichever
\* scope started it.
ScopeSpanLatest(s) == Len(spans)

\* scope.Get(spanScopeKey): the span the scope holds, NilSpan for none.
ScopeSpan(s) == scopes[s].span

\* The ORM has run the statement and left its error, if any, in the scope;
\* the after hook, endTrace, reads the span from the scope, takes the
\* configured slice as its attribute list and appends the table attribute.
AfterTable(s) ==
    /\ scopes[s].pc = "run"
    /\ \E err \in {NoError, ErrRecordNotFound, ErrOther} :
          LET stmt == Statement(scopes[s].operation)
              kv == [key |-> TableKey, value |-> stmt.table]
          IN  IF ScopeSpan(s) = NilSpan
              THEN /\ scopes' = [scopes EXCEPT ![s].pc = "done", ![s].stmt = stmt,
                                               ![s].err = err]
                   /\ backing' = backing
              ELSE IF table
              THEN /\ scopes' = [scopes EXCEPT ![s].pc = "query", ![s].stmt = stmt,
                                    ![s].err = err,
                                    ![s].attributes = AppendSlice(defaultAttributes, kv, backing)]
                   /\ backing' = AppendArray(defaultAttributes, kv, backing)
              ELSE /\ scopes' = [scopes EXCEPT ![s].pc = "query", ![s].stmt = stmt,
                                    ![s].err = err, ![s].attributes = defaultAttributes]
                   /\ backing' = backing
    /\ executed' = Append(executed, s)
    /\ UNCHANGED <<allowRoot, query, table, defaultAttributes, handleCtx,
                   spans, completed>>
    /\ UNCHANGED fmtVars

\* endTrace: the query attribute is appended.
AfterQuery(s) ==
    /\ scopes[s].pc = "query"
    /\ LET kv == [key |-> QueryKey,
                  value |-> LogFormatter(scopes[s].stmt.SQL, scopes[s].stmt.SQLVars)]
       IN  IF query
           THEN /\ scopes' = [scopes EXCEPT ![s].pc = "path",
                                 ![s].attributes = AppendSlice(scopes[s].attributes, kv, backing)]
                /\ backing' = AppendArray(scopes[s].attributes, kv, backing)
           ELSE /\ scopes' = [scopes EXCEPT ![s].pc = "path"]
                /\ backing' = backing
    /\ UNCHANGED <<allowRoot, query, table, defaultAttributes, handleCtx,
                   spans, completed, executed>>
    /\ UNCHANGED fmtVars

\* endTrace: the path attribute is appended.
AfterPath(s) ==
    /\ scopes[s].pc = "path"
    /\ LET kv == [key |-> "path", value |-> fileWithLineNum(CallSite(s))] IN
       /\ scopes' = [scopes EXCEPT ![s].pc = "finish",
                        ![s].attributes = AppendSlice(scopes[s].attributes, kv, backing)]
       /\ backing' = AppendArray(scopes[s].attributes, kv, backing)
    /\ UNCHANGED <<allowRoot, query, table, defaultAttributes, handleCtx,
                   spans, completed, executed>>
    /\ UNCHANGED fmtVars

\* span.End(): the recorder completes a span the first time it is ended.
Completed(id) ==
    IF spans[id].endedBy = <<>> THEN Append(completed, id) ELSE completed

\* endTrace: SetAttributes, SetStatus and End on the span read from the scope.
AfterEnd(s) ==
    /\ scopes[s].pc = "finish"
    /\ LET id == ScopeSpan(s)
           st == Status(scopes[s].err)
       IN  /\ spans' = [spans EXCEPT
                  ![id].attributes = Elements(scopes[s].attributes, backing),
                  ![id].code = st.code,
                  ![id].msg = st.msg,
                  ![id].calls = spans[id].calls \o <<"SetAttributes", "SetStatus", "End">>,
                  ![id].endedBy = Append(spans[id].endedBy, s)]
           /\ completed' = Completed(id)
    /\ scopes' = [scopes EXCEPT ![s].pc = "done"]
    /\ UNCHANGED <<allowRoot, query, table, defaultAttributes, backing, handleCtx,
                   executed>>
    /\ UNCHANGED fmtVars

\* The caller ends the span it started, after the operations it ran under it.
EndParent ==
    /\ handleCtx.span = ParentSpan
    /\ spans[ParentSpan].endedBy = <<>>
    /\ \A s \in Scopes : ~InFlight(s)
    /\ spans' = [spans EXCEPT
           ![ParentSpan].calls = Append(spans[ParentSpan].calls, "End"),
           ![ParentSpan].endedBy = <<0>>]
    /\ completed' = Completed(ParentSpan)
    /\ UNCHANGED <<allowRoot, query, table, defaultAttributes, backing, handleCtx,
                   scopes, executed>>
    /\ UNCHANGED fmtVars

\* Operations of several goroutines on one handle.
Next ==
    \/ \E s \in Scopes, operation \in Operations : Before(s, operation)
    \/ \E s \in Scopes : AfterTable(s)
    \/ \E s \in Scopes : AfterQuery(s)
    \/ \E s \in Scopes : AfterPath(s)
    \/ \E s \in Scopes : AfterEnd(s)
    \/ EndParent

Spec == Init /\ [][Next]_vars

\* Operations of one goroutine: one after the other.
NextSeq ==
    \/ \E s \in Scopes, operation \in Operations :
          (\A r \in Scopes : ~InFlight(r)) /\ Before(s, operation)
    \/ \E s \in Scopes : AfterTable(s)
    \/ \E s \in Scopes : AfterQuery(s)
    \/ \E s \in Scopes : AfterPath(s)
    \/ \E s \in Scopes : AfterEnd(s)
    \/ EndParent

SpecSeq == Init /\ [][NextSeq]_vars

(***************************************************************************)
(* Calls of LogFormatter.                                                  *)
(***************************************************************************)
SeqsUpTo(S, n) == UNION {[1..k -> S] : k \in 0..n}

QueryChars == {"$", "0", "1", "2", "?", "a"}

Queries == SeqsUpTo(QueryChars, MaxQueryLen)

StringOf(s) == [type |-> "string", s |-> s]

IntOf(type, n) == [type |-> type, n |-> n]

ValuerOf(err, val) == [type |-> "valuer", err |-> err, val |-> val]

\* Bound values of every kind LogFormatter tells apart.
BoundValues ==
    {NilValue, NilPtr, ZeroTime, TimeOf(2021, 3, 4, 15, 6, 7),
     [type |-> "[]byte", b |-> <<"a", " ">>], [type |-> "[]byte", b |-> <<"a", "\t">>],
     ValuerOf(FALSE, IntOf("int64", 5)), ValuerOf(FALSE, NilValue),
     ValuerOf(TRUE, StringOf(<<"a">>)), ValuerOf(TRUE, NilValue),
     IntOf("int", -10), IntOf("uint8", 0), IntOf("int64", 7),
     [type |-> "float64", tenths |-> 15], [type |-> "float32", tenths |-> 20],
     [type |-> "bool", b |-> TRUE], [type |-> "bool", b |-> FALSE],
     StringOf(<<"a", "'">>), StringOf(<<>>),
     PtrTo(IntOf("int", 7)), PtrTo(ZeroTime), PtrTo(StringOf(<<"a">>)),
     PtrTo(ValuerOf(FALSE, StringOf(<<"a">>))),
     PtrTo(PtrTo(IntOf("int", 7))), PtrTo(NilPtr)}

\* Bound values whose renderings matter to the substitution.
SubstitutedValues ==
    {IntOf("int", 7), NilValue, StringOf(<<"$", "2">>), StringOf(<<"$", "$", "2">>)}

TraceOff ==
    /\ allowRoot = FALSE
    /\ query = FALSE
    /\ table = FALSE
    /\ defaultAttributes = [shared |-> TRUE, len |-> 0, own |-> <<>>]
    /\ backing = <<>>
    /\ handleCtx = Unset
    /\ scopes = [s \in Scopes |-> IdleScope]
    /\ spans = <<>>
    /\ completed = <<>>
    /\ executed = <<>>

\* A call LogFormatter(query, vars).
InitCall(queries, values) ==
    /\ TraceOff
    /\ lfQuery \in queries
    /\ lfVars \in SeqsUpTo(values, MaxVars)
    /\ formattedValues = <<>>
    /\ sql = <<>>
    /\ lfpc = "values"

\* One turn of the loop over the bound values.
RenderNext ==
    /\ lfpc = "values"
    /\ Len(formattedValues) < Len(lfVars)
    /\ formattedValues' =
           Append(formattedValues, RenderValue(lfVars[Len(formattedValues) + 1]))
    /\ UNCHANGED <<lfQuery, lfVars, sql, lfpc>>
    /\ UNCHANGED traceVars

\* The substitution of a query with $n placeholders.
Numbered ==
    /\ lfpc = "values"
    /\ Len(formattedValues) = Len(lfVars)
    /\ HasNumericPlaceHolder(lfQuery)
    /\ sql' = SubstituteNumbered(lfQuery, formattedValues, Len(formattedValues))
    /\ lfpc' = "done"
    /\ UNCHANGED <<lfQuery, lfVars, formattedValues>>
    /\ UNCHANGED traceVars

\* The substitution of every other query.
Ordinal ==
    /\ lfpc = "values"
    /\ Len(formattedValues) = Len(lfVars)
    /\ ~HasNumericPlaceHolder(lfQuery)
    /\ sql' = SubstituteOrdinal(lfQuery, formattedValues)
    /\ lfpc' = "done"
    /\ UNCHANGED <<lfQuery, lfVars, formattedValues>>
    /\ UNCHANGED traceVars

NextCall == RenderNext \/ Numbered \/ Ordinal

\* LogFormatter on every short query, with values that try the substitution.
SpecFmt == InitCall(Queries, SubstitutedValues) /\ [][NextCall]_vars

\* LogFormatter on bound values of every kind.
SpecRender ==
    InitCall({<<"?", "?">>, <<"$", "1", "$", "2">>}, BoundValues) /\ [][NextCall]_vars

(***************************************************************************)
(* The claims.                                                             *)
(***************************************************************************)
OwnedSpans(s) == {id \in 1..Len(spans) : spans[id].owner = s}

Count(seq, x) == Cardinality({i \in 1..Len(seq) : seq[i] = x})

Done(s) == scopes[s].pc = "done"

ExpectedSpanName(operation) ==
    CASE operation = "create" -> "gorm:create"
      [] operation = "query" -> "gorm:query"
      [] operation = "update" -> "gorm:update"
      [] operation = "delete" -> "gorm:delete"
      [] operation = "row_query" -> "gorm:row_query"
      [] OTHER -> "?"

\* C1: when a before hook has run on a context that carries no parent span
\* and root spans are not allowed, no span was started for the operation and
\* the scope holds nothing under the span key (so the after hook has no span
\* to record or end).
C1_RootSpanSuppressed ==
    \A s \in Scopes :
        (scopes[s].pc # "idle" /\ ~allowRoot /\ handleCtx.span = NilSpan)
            => (scopes[s].span = NilSpan /\ OwnedSpans(s) = {})

\* C2: with AllowRoot(true) and no parent span, operations run one after the
\* other each give exactly one completed span, named "gorm:" and the
\* operation's name, and the spans complete in the order the operations ran.
C2_RootSpansInOrder ==
    (allowRoot /\ handleCtx.span = NilSpan) =>
        /\ \A s \in Scopes :
              Done(s) => /\ Cardinality(OwnedSpans(s)) = 1
                         /\ \A id \in OwnedSpans(s) : Count(completed, id) = 1
        /\ Len(completed) = Cardinality({s \in Scopes : Done(s)})
        /\ Len(completed) <= Len(executed)
        /\ \A i \in 1..Len(completed) :
              /\ spans[completed[i]].owner = executed[i]
              /\ spans[completed[i]].name
                     = ExpectedSpanName(scopes[executed[i]].operation)

\* C2, its case: Create then Delete completed gorm:create, gorm:delete.
C2_Witness ==
    /\ allowRoot
    /\ handleCtx.span = NilSpan
    /\ Len(completed) = 2
    /\ spans[completed[1]].name = "gorm:create"
    /\ spans[completed[2]].name = "gorm:delete"

\* C3: when the handle's context carries a parent span, the span of every
\* operation is started from that context, a child of the parent, and once
\* the caller has ended the parent the completed spans are those of the
\* operations followed by the parent.
C3_ChildOfParent ==
    handleCtx.span = ParentSpan =>
        /\ \A s \in Scopes :
              scopes[s].pc # "idle" =>
                  /\ scopes[s].span \in OwnedSpans(s)
                  /\ spans[scopes[s].span].parent = ParentSpan
                  /\ spans[scopes[s].span].name = ExpectedSpanName(scopes[s].operation)
        /\ spans[ParentSpan].endedBy # <<>> =>
              /\ completed[Len(completed)] = ParentSpan
              /\ Len(completed) = 1 + Cardinality({s \in Scopes : scopes[s].pc # "idle"})
              /\ \A s \in Scopes :
                    scopes[s].pc # "idle" =>
                        \E i \in 1..(Len(completed) - 1) : completed[i] = scopes[s].span

\* C3, its case: a Create under the parent, then the parent ended.
C3_Witness ==
    /\ handleCtx.span = ParentSpan
    /\ Len(completed) = 2
    /\ spans[completed[1]].name = "gorm:create"
    /\ spans[completed[1]].parent = ParentSpan
    /\ completed[2] = ParentSpan
    /\ spans[ParentSpan].name = "myTrace"

\* C4: a span finalized by an after hook had its status set exactly once,
\* before End; the status is (Ok, "") exactly when the scope has no error,
\* and otherwise Error with "gorm:NotFound" for the record-not-found error
\* and "gorm:Unknown" for every other error.
C4_StatusDerivation ==
    \A s \in Scopes :
        (Done(s) /\ scopes[s].span # NilSpan) =>
            LET sp == spans[scopes[s].span] IN
            /\ Count(sp.calls, "SetStatus") = 1
            /\ Count(sp.calls, "End") = 1
            /\ \A i, j \in 1..Len(sp.calls) :
                  (sp.calls[i] = "SetStatus" /\ sp.calls[j] = "End") => i < j
            /\ (sp.code = "Ok" /\ sp.msg = "") <=> (scopes[s].err = NoError)
            /\ scopes[s].err = ErrRecordNotFound
                  => (sp.code = "Error" /\ sp.msg = "gorm:NotFound")
            /\ scopes[s].err \notin {NoError, ErrRecordNotFound}
                  => (sp.code = "Error" /\ sp.msg = "gorm:Unknown")

\* C4, its case: spans finalized for a statement that found no record and
\* for one that failed otherwise.
C4_Witness ==
    \E s, r \in Scopes :
        /\ Done(s) /\ scopes[s].err = ErrRecordNotFound
        /\ spans[scopes[s].span].msg = "gorm:NotFound"
        /\ Done(r) /\ scopes[r].err = ErrOther
        /\ spans[scopes[r].span].msg = "gorm:Unknown"

\* The attribute list C5 describes for the span of operation s.
ExpectedAttributes(s) ==
    SubSeq(ConfiguredAttributes, 1, defaultAttributes.len)
        \o (IF table THEN <<[key |-> "gorm.table", value |-> scopes[s].stmt.table]>>
            ELSE <<>>)
        \o (IF query
            THEN <<[key |-> "gorm.query",
                    value |-> LogFormatter(scopes[s].stmt.SQL, scopes[s].stmt.SQLVars)]>>
            ELSE <<>>)
        \o <<[key |-> "path", value |-> fileWithLineNum(CallSite(s))]>>

\* C5: the attributes set on a finalized span are the configured default
\* attributes, then gorm.table (the scope's table) exactly when Table is on,
\* then gorm.query (LogFormatter of the scope's SQL and bound values) exactly
\* when Query is on, then the path; and with Query on and no bound values
\* gorm.query is the SQL text unchanged.
C5_AttributeList ==
    \A s \in Scopes :
        (Done(s) /\ scopes[s].span # NilSpan) =>
            /\ spans[scopes[s].span].attributes = ExpectedAttributes(s)
            /\ (query /\ scopes[s].stmt.SQLVars = <<>>) =>
                  \E i \in 1..Len(spans[scopes[s].span].attributes) :
                      spans[scopes[s].span].attributes[i]
                          = [key |-> "gorm.query", value |-> scopes[s].stmt.SQL]

\* C9: no step changes the configured default attributes, and no step of one
\* operation changes the attribute list another operation is building for
\* its span.
C9_ConfigurationReadOnly ==
    [][/\ defaultAttributes' = defaultAttributes
       /\ Elements(defaultAttributes', backing') = Elements(defaultAttributes, backing)
       /\ \A s \in Scopes :
             (scopes[s].pc \in {"query", "path", "finish"} /\ scopes'[s] = scopes[s])
                 => Elements(scopes'[s].attributes, backing')
                        = Elements(scopes[s].attributes, backing)]_vars

\* C10: every span started by the before hook of an operation is held by that
\* operation's scope together with the context derived from it, is ended by
\* the after hook of that operation only, exactly once, and is not open once
\* that after hook has run; a scope that holds no span has none recorded or
\* ended by its after hook.
C10_SpanPairing ==
    /\ \A id \in 1..Len(spans) :
          LET s == spans[id].owner IN
          s # 0 =>
              /\ scopes[s].span = id
              /\ scopes[s].ctx = ContextWithSpan(id)
              /\ OwnedSpans(s) = {id}
              /\ IF Done(s)
                 THEN /\ spans[id].endedBy = <<s>>
                      /\ Count(spans[id].calls, "End") = 1
                      /\ Count(completed, id) = 1
                 ELSE /\ spans[id].endedBy = <<>>
                      /\ spans[id].calls = <<>>
                      /\ Count(completed, id) = 0
    /\ \A s \in Scopes :
          scopes[s].span = NilSpan =>
              \A id \in 1..Len(spans) :
                  \A i \in 1..Len(spans[id].endedBy) : spans[id].endedBy[i] # s

\* C10, its case: two operations in flight together, the one started last
\* finished first, each span ended by its own operation.
C10_Witness ==
    /\ Len(completed) = 2
    /\ spans[completed[1]].owner = 2
    /\ spans[completed[2]].owner = 1
    /\ spans[completed[1]].endedBy = <<2>>
    /\ spans[completed[2]].endedBy = <<1>>
    /\ Len(executed) = 2 /\ executed[1] = 1

\* The number of digits of text from position i on.
RECURSIVE DigitRun(_, _)
DigitRun(text, i) ==
    IF i <= Len(text) /\ IsDigit(text[i]) THEN 1 + DigitRun(text, i + 1) ELSE 0

\* The query with every marker $k, 1 <= k <= Len(formatted), replaced by the
\* k-th rendering and every other character kept, from position i on.
RECURSIVE NumberedFrom(_, _, _)
NumberedFrom(text, i, formatted) ==
    IF i > Len(text) THEN <<>>
    ELSE LET r == DigitRun(text, i + 1)
             d == SubSeq(text, i + 1, i + r)
         IN  IF text[i] = "$" /\ r > 0 /\ d[1] # "0" /\ DecimalOf(d) <= Len(formatted)
             THEN formatted[DecimalOf(d)] \o NumberedFrom(text, i + r + 1, formatted)
             ELSE <<text[i]>> \o NumberedFrom(text, i + 1, formatted)

\* C6: for a query with a $<digits> marker, LogFormatter returns the query
\* with every occurrence of $k, 1 <= k <= n, replaced by the rendering of the
\* k-th value and all other text unchanged ($1 is not replaced inside $10,
\* repeated and adjacent markers are all replaced, inserted values are not
\* rewritten).
C6_NumberedSubstitution ==
    (lfpc = "done" /\ HasNumericPlaceHolder(lfQuery))
        => sql = NumberedFrom(lfQuery, 1, formattedValues)

\* The query with its i-th question mark replaced by the i-th rendering, the
\* question marks beyond the last rendering removed, from position i on
\* (seen question marks came before).
RECURSIVE OrdinalFrom(_, _, _, _)
OrdinalFrom(text, i, seen, formatted) ==
    IF i > Len(text) THEN <<>>
    ELSE IF text[i] = "?"
    THEN (IF seen + 1 <= Len(formatted) THEN formatted[seen + 1] ELSE <<>>)
             \o OrdinalFrom(text, i + 1, seen + 1, formatted)
    ELSE <<text[i]>> \o OrdinalFrom(text, i + 1, seen, formatted)

\* C7: for a query without a $<digits> marker, with m question marks and n
\* values, LogFormatter returns the text between the question marks with the
\* i-th question mark replaced by the i-th rendering for i <= min(m, n);
\* values beyond the m-th are ignored and question marks beyond the n-th
\* value are removed.
C7_OrdinalSubstitution ==
    (lfpc = "done" /\ ~HasNumericPlaceHolder(lfQuery))
        => sql = OrdinalFrom(lfQuery, 1, 0, formattedValues)

\* The rendering C8 gives for a bound value: nil and a nil pointer are NULL;
\* otherwise the value behind one pointer level is rendered by the first
\* rule that fits it.
ClaimedRendering(v) ==
    LET d == IF v.type = "ptr" /\ ~v.isNil THEN v.elem ELSE v IN
    IF v.type = "nil" \/ (v.type = "ptr" /\ v.isNil) THEN <<"N", "U", "L", "L">>
    ELSE IF d.type = "time.Time"
    THEN IF d.year = 1 /\ d.month = 1 /\ d.day = 1 /\ d.hour = 0 /\ d.min = 0 /\ d.sec = 0
         THEN <<"'">> \o ZeroTimeText \o <<"'">>
         ELSE <<"'">> \o FormatTime(d) \o <<"'">>
    ELSE IF d.type = "[]byte"
    THEN IF \E i \in 1..Len(d.b) : d.b[i] \in {"\t", "\n"}
         THEN <<"'", "<", "b", "i", "n", "a", "r", "y", ">", "'">>
         ELSE <<"'">> \o d.b \o <<"'">>
    ELSE IF d.type = "valuer"
    THEN IF d.err \/ d.val.type = "nil" THEN <<"N", "U", "L", "L">>
         ELSE <<"'">> \o SprintV(d.val) \o <<"'">>
    ELSE IF d.type \in IntTypes \cup {"float32", "float64", "bool"}
    THEN SprintV(d)
    ELSE <<"'">> \o SprintV(d) \o <<"'">>

=============================================================================
